---- MODULE Spec2Model ----
(***************************************************************************)
(* TimelessTales: the chunking-and-reduction pipeline.                     *)
(*   StringSplitter  (src/summarizer.py)  splits a text into chunks        *)
(*   TextSummarizer  (src/summarizer.py)  drives per-chunk inference       *)
(*   LargeLanguageModelAPI (src/llm_api.py) composes prompts and infers    *)
(*   ProjectGutenbergAPI (src/gutenberg_api.py) fetches the book text      *)
(*   LiteratureAdaptationApp (src/app.py) writes the result out            *)
(*                                                                         *)
(* A Python str is a sequence of one-character strings.  An optional       *)
(* Python value (an int or None) is a sequence of length at most one:      *)
(* <<n>> is the int n and <<>> is None.                                    *)
(***************************************************************************)
EXTENDS Integers, Sequences, FiniteSets, TLC

VARIABLES
    pc,               \* position of the running call
    llm,              \* the LargeLanguageModelAPI: model_type, model_id, api_key, max_context_length
    system_prompt,    \* TextSummarizer.system_prompt
    max_length,       \* TextSummarizer.max_length (optional int)
    string_splitter,  \* TextSummarizer.string_splitter: its max_chunk_length, <<>> when there is none
    last_set,         \* the last set_max_length call: its argument, how it ended, max_length before it
    text,             \* summarize's argument
    full_text,        \* summarize's local full_text
    path,             \* the branch summarize took: "none", "single", "multi"
    check_limit,      \* the limit summarize compared len(text) with
    split_limit,      \* the limit the running split_string compared len(current_string) with
    input_string,     \* split_string's argument
    current_string,   \* split_string's local current_string
    chunks,           \* split_string's local chunks
    full_chunks,      \* summarize's local full_chunks
    summaries,        \* the results of the infer calls made so far by summarize
    infer_calls,      \* the infer calls summarize made, in call order: prompt and outcome
    ret,              \* how the last call ended: returned value or raised error
    call,             \* a direct call of StringSplitter, LargeLanguageModelAPI, ProjectGutenbergAPI
                      \* or LiteratureAdaptationApp: the operation and its arguments
    world,            \* what those direct calls did outside the program: standard output,
                      \* files, backend contacts, HTTP requests
    loaded,           \* LargeLanguageModelAPI.tokenizer and .model: the model identifier each
                      \* was loaded from, <<>> when the attribute was never set
    app               \* the fields of LiteratureAdaptationApp besides llm

vars == << pc, llm, system_prompt, max_length, string_splitter, last_set, text,
           full_text, path, check_limit, split_limit, input_string,
           current_string, chunks, full_chunks, summaries, infer_calls, ret,
           call, world, loaded, app >>

----------------------------------------------------------------------------
(* Bounds of the model *)

\* longest string given to a direct split_string call
MaxStrLen == 7
\* largest max_chunk_length of a directly constructed StringSplitter
MaxLimit == 6
\* longest text given to summarize
MaxTextLen == 4
\* largest limit given to TextSummarizer / set_max_length
MaxSumLimit == 2
\* passes of split_string's loop the model follows (the loop itself has no bound)
MaxPasses == 8

\* longest str given to a direct split_string call on a built splitter
MaxInputLen == 3
\* most characters the model lets output_result print to standard output
MaxStdoutLen == 3

----------------------------------------------------------------------------
(* Python str and list primitives *)

NL == "\n"
SP == " "
Chars == {"a", SP, NL}

None == << >>
Some(n) == << n >>
IsInt(v) == Len(v) = 1

Min2(a, b) == IF a < b THEN a ELSE b

SetMax(S) == CHOOSE x \in S : \A y \in S : y <= x

\* all strings over Chars of length at most n
StringsUpTo(n) == UNION { [1..k -> Chars] : k \in 0..n }

\* s[i:j] for 0 <= i, 0 <= j
Slice(s, i, j) == SubSeq(s, Min2(i, Len(s)) + 1, Min2(j, Len(s)))

\* s.rfind(pat): the 0-based start of the rightmost occurrence of pat in s, else -1
Rfind(s, pat) ==
    LET hits == { i \in 0..(Len(s) - Len(pat)) :
                     SubSeq(s, i + 1, i + Len(pat)) = pat }
    IN  IF hits = {} THEN -1 ELSE SetMax(hits)

RECURSIVE Concat(_)
\* "".join(seqs)
Concat(seqs) ==
    IF seqs = << >> THEN << >> ELSE Head(seqs) \o Concat(Tail(seqs))

RECURSIVE JoinWith(_, _)
\* sep.join(seqs)
JoinWith(sep, seqs) ==
    IF seqs = << >> THEN << >>
    ELSE IF Len(seqs) = 1 THEN Head(seqs)
    ELSE Head(seqs) \o sep \o JoinWith(sep, Tail(seqs))

----------------------------------------------------------------------------
(* StringSplitter *)

\* a check that lets the limit zero through
ValidChunkLengthAllowsZero(v) == IsInt(v) /\ v[1] >= 0

\* StringSplitter.__init__'s check: isinstance(max_chunk_length, int) and > 0
ValidChunkLength(v) == IsInt(v) /\ v[1] > 0

\* min_len = int(mlen * 0.80)
MinLen(mlen) == (mlen * 80) \div 100

\* a window search that forgets the upper end of the window
FindSplitIndexOpenWindow(string, mlen) ==
    LET min_len == MinLen(mlen)
        i1 == Rfind(Slice(string, min_len, Len(string)), <<NL, NL>>) + min_len
        i2 == Rfind(Slice(string, min_len, Len(string)), <<NL>>) + min_len
        i3 == Rfind(Slice(string, 0, mlen), <<SP>>)
    IN  IF i1 > 0 THEN i1
        ELSE IF i2 > 0 THEN i2
        ELSE IF i3 > 0 THEN i3
        ELSE mlen - 1

\* a search whose last resort cuts at the limit itself
FindSplitIndexCutsAtLimit(string, mlen) ==
    LET min_len == MinLen(mlen)
        i1 == Rfind(Slice(string, min_len, mlen), <<NL, NL>>) + min_len
        i2 == Rfind(Slice(string, min_len, mlen), <<NL>>) + min_len
        i3 == Rfind(Slice(string, 0, mlen), <<SP>>)
    IN  IF i1 > 0 THEN i1
        ELSE IF i2 > 0 THEN i2
        ELSE IF i3 > 0 THEN i3
        ELSE mlen

\* StringSplitter._find_split_index
FindSplitIndex(string, mlen) ==
    LET min_len == MinLen(mlen)
        i1 == Rfind(Slice(string, min_len, mlen), <<NL, NL>>) + min_len
        i2 == Rfind(Slice(string, min_len, mlen), <<NL>>) + min_len
        i3 == Rfind(Slice(string, 0, mlen), <<SP>>)
    IN  IF i1 > 0 THEN i1
        ELSE IF i2 > 0 THEN i2
        ELSE IF i3 > 0 THEN i3
        ELSE mlen - 1

\* the left part: current_string[:split_index]
LeftPart(cur, split_index) == Slice(cur, 0, split_index)

\* a remainder that skips the character at the cut
RightPartSkipsCut(cur, split_index) == Slice(cur, split_index + 1, Len(cur))

\* the remaining part: current_string[split_index:]
RightPart(cur, split_index) == Slice(cur, split_index, Len(cur))

\* the loop condition: len(current_string) > self.max_chunk_length
LoopCondition(cur, mlen) == Len(cur) > mlen

\* "if current_string: chunks.append(current_string)"
WithLastPart(cs, cur) == IF cur # << >> THEN Append(cs, cur) ELSE cs

----------------------------------------------------------------------------
(* LargeLanguageModelAPI *)

HF_SEQ2SEQ == "hf_seq2seq"
HF_CAUSAL == "hf_causal"
OA_API == "oa_api"
\* a model_type that is none of SupportedLLMTypes
OtherType == "other_type"

LedModel == "pszemraj/led-base-book-summary"
MistralModel == "teknium/Mistral-Trismegistus-7B"
\* a model identifier with no entry in prompt_templates
OtherModel == "other/model"

ModelTypes == {HF_SEQ2SEQ, HF_CAUSAL, OA_API, OtherType}
ModelIds == {LedModel, MistralModel, OtherModel}
ApiKeys == {None, <<"k">>}

\* the default of max_context_length
DefaultMaxContextLength == 4000

\* the keys of prompt_templates
HasTemplate(model_id) == model_id \in {LedModel, MistralModel}

\* prompt_templates[model_id].format(message=..., system_message=...)
FormatTemplate(model_id, message, system_message) ==
    IF model_id = LedModel
    THEN message
    ELSE system_message \o <<NL, "U", "S", "E", "R", ":", SP>> \o message
             \o <<NL, "A", "S", "S", "I", "S", "T", "A", "N", "T", ":">>

\* outcomes of a call
ReturnStr(s) == [kind |-> "str", str |-> s, err |-> ""]
ReturnNone == [kind |-> "none", str |-> << >>, err |-> ""]
Raise(e) == [kind |-> "raise", str |-> << >>, err |-> e]

UnknownPromptFormat == "ValueError: Don't know the prompt format for this model"
EmptyInput == "ValueError: Input text is empty or None"
MissingCredentials == "ValueError: API key is required for OpenAI model inference."
UnsupportedBackend == "LargeLanguageModelAPIError: Unknown inference for type"
InvalidConfiguration == "ValueError: max_chunk_length must be a positive integer."
NoneComparison == "TypeError: '<=' not supported between 'int' and 'NoneType'"
JoinOfNone == "TypeError: sequence item: expected str instance, NoneType found"
\* any error of the backend library itself (network, model execution)
BackendFailure == "BackendError"

\* a compose_prompt that falls back to the bare message for an unknown model
ComposePromptFallsBack(l, message, system_message) ==
    IF HasTemplate(l.model_id)
    THEN ReturnStr(FormatTemplate(l.model_id, message, system_message))
    ELSE ReturnStr(message)

\* LargeLanguageModelAPI.compose_prompt with full_text=None
ComposePrompt(l, message, system_message) ==
    IF HasTemplate(l.model_id)
    THEN ReturnStr(FormatTemplate(l.model_id, message, system_message))
    ELSE Raise(UnknownPromptFormat)

\* texts a backend may generate
Generated == { <<"x">>, <<"y">> }

\* _hf_seq_model_inference: prints result[0], returns nothing
HfSeqModelInference(l, prompt) == {ReturnNone, Raise(BackendFailure)}

\* _hf_causal_model_inference
HfCausalModelInference(l, prompt) ==
    {ReturnStr(g) : g \in Generated} \cup {Raise(BackendFailure)}

\* a remote inference that goes to the backend without looking at the key
OaiRemoteModelInferenceNoKeyCheck(l, prompt) ==
    {ReturnStr(g) : g \in Generated} \cup {Raise(BackendFailure)}

\* _oai_remote_model_inference
OaiRemoteModelInference(l, prompt) ==
    IF l.api_key = None
    THEN {Raise(MissingCredentials)}
    ELSE {ReturnStr(g) : g \in Generated} \cup {Raise(BackendFailure)}

\* LargeLanguageModelAPI.infer: the outcomes the call may have
Infer(l, prompt) ==
    IF prompt = << >>
    THEN {Raise(EmptyInput)}
    ELSE CASE l.model_type = HF_SEQ2SEQ -> HfSeqModelInference(l, prompt)
           [] l.model_type = HF_CAUSAL -> HfCausalModelInference(l, prompt)
           [] l.model_type = OA_API -> OaiRemoteModelInference(l, prompt)
           [] OTHER -> {Raise(UnsupportedBackend)}

----------------------------------------------------------------------------
(* TextSummarizer *)

\* prompt__summarize_narrative, abridged
DefaultSystemPrompt == <<NL, "5", "y", "o", NL, NL>>
CustomSystemPrompt == <<"c">>

\* "custom_system_prompt if custom_system_prompt else prompt__summarize_narrative"
ChooseSystemPrompt(custom) ==
    IF custom # None /\ custom[1] # << >> THEN custom[1] ELSE DefaultSystemPrompt

\* the values a caller may pass as max_length
LimitArgs == {None} \cup { Some(n) : n \in -1..MaxSumLimit }

\* the texts a caller may pass to summarize
TextChars == {"a", NL}
Texts == UNION { [1..k -> TextChars] : k \in 0..MaxTextLen }

\* a length check made on the composed prompt
FitsInOneCallOnPrompt(t, full, limit) == Len(full) <= limit

\* the check "len(text) <= self.max_length"
FitsInOneCall(t, full, limit) == Len(t) <= limit

\* what summarize hands to the splitter
SplitInput(t, full) == t

\* the value of the locals outside a call
NoCall ==
    /\ text' = << >>
    /\ full_text' = << >>
    /\ path' = "none"
    /\ check_limit' = None
    /\ split_limit' = None
    /\ input_string' = << >>
    /\ current_string' = << >>
    /\ chunks' = << >>
    /\ full_chunks' = << >>
    /\ summaries' = << >>
    /\ infer_calls' = << >>

NoResult == [kind |-> "pending", str |-> << >>, err |-> ""]

----------------------------------------------------------------------------
(* State machine *)

LLMs == [model_type : ModelTypes, model_id : ModelIds, api_key : ApiKeys,
         max_context_length : 1..MaxSumLimit]

NeverSet == [arg |-> None, outcome |-> "none", prev |-> None]

\* what a set_model_id(model_id) in which every load succeeds leaves in
\* self.tokenizer and self.model: a pipeline for HF_SEQ2SEQ, a tokenizer and a
\* model for HF_CAUSAL, nothing for the other types
LoadedBy(model_type, model_id) ==
    CASE model_type = HF_SEQ2SEQ -> [tokenizer |-> None, model |-> Some(model_id)]
      [] model_type = HF_CAUSAL -> [tokenizer |-> Some(model_id), model |-> Some(model_id)]
      [] OTHER -> [tokenizer |-> None, model |-> None]

\* the file paths a caller may name
Paths == {"out.txt", "other.txt"}

\* no LiteratureAdaptationApp exists
NoApp == [gutenberg_query |-> "", api_key |-> None, output_file_path |-> None]

\* no direct call is running
NoOp == [op |-> "none"]

\* the outside before any call: nothing printed, no file, no backend contact, no request
EmptyWorld == [stdout |-> << >>, files |-> [p \in Paths |-> None],
               backend |-> 0, requests |-> << >>]

\* one pass of split_string's while loop (in a direct call or inside summarize)
SplitLoop ==
    /\ pc \in {"split", "summarize_split"}
    /\ LoopCondition(current_string, string_splitter[1])
    /\ Len(chunks) < MaxPasses
    /\ LET split_index == FindSplitIndex(current_string, string_splitter[1])
       IN  /\ chunks' = Append(chunks, LeftPart(current_string, split_index))
           /\ current_string' = RightPart(current_string, split_index)
    /\ split_limit' = string_splitter
    /\ UNCHANGED << pc, llm, system_prompt, max_length, string_splitter, last_set,
                    text, full_text, path, check_limit, input_string,
                    full_chunks, summaries, infer_calls, ret >>
    /\ UNCHANGED << call, world, loaded, app >>

\* a direct split_string call leaves the loop, appends the last part and returns chunks
SplitReturn ==
    /\ pc = "split"
    /\ ~LoopCondition(current_string, string_splitter[1])
    /\ chunks' = WithLastPart(chunks, current_string)
    /\ split_limit' = string_splitter
    /\ pc' = "split_returned"
    /\ UNCHANGED << llm, system_prompt, max_length, string_splitter, last_set,
                    text, full_text, path, check_limit, input_string,
                    current_string, full_chunks, summaries, infer_calls, ret >>
    /\ UNCHANGED << call, world, loaded, app >>

\* a set_max_length that builds a StringSplitter only when there is none yet
SetMaxLengthReusesSplitter(arg) ==
    /\ max_length' = arg
    /\ IF ValidChunkLength(arg)
       THEN /\ string_splitter' = IF string_splitter = None THEN arg ELSE string_splitter
            /\ last_set' = [arg |-> arg, outcome |-> "returned", prev |-> max_length]
            /\ ret' = ReturnNone
       ELSE /\ string_splitter' = string_splitter
            /\ last_set' = [arg |-> arg, outcome |-> "raised", prev |-> max_length]
            /\ ret' = Raise(InvalidConfiguration)

\* TextSummarizer.set_max_length(arg): the assignments and the StringSplitter it builds
SetMaxLengthBody(arg) ==
    /\ max_length' = arg
    /\ IF ValidChunkLength(arg)
       THEN /\ string_splitter' = arg
            /\ last_set' = [arg |-> arg, outcome |-> "returned", prev |-> max_length]
            /\ ret' = ReturnNone
       ELSE /\ string_splitter' = string_splitter
            /\ last_set' = [arg |-> arg, outcome |-> "raised", prev |-> max_length]
            /\ ret' = Raise(InvalidConfiguration)

\* TextSummarizer.__init__(language_model, custom_system_prompt, max_length)
Construct ==
    /\ pc = "new"
    /\ \E custom \in {None, Some(<< >>), Some(CustomSystemPrompt)}, arg \in LimitArgs :
          /\ system_prompt' = ChooseSystemPrompt(custom)
          /\ SetMaxLengthBody(arg)
          /\ pc' = IF ValidChunkLength(arg) THEN "idle" ELSE "init_raised"
    /\ UNCHANGED << llm, text, full_text, path, check_limit, split_limit,
                    input_string, current_string, chunks, full_chunks,
                    summaries, infer_calls >>
    /\ UNCHANGED << call, world, loaded, app >>

\* a caller's set_max_length(arg) on the constructed summarizer
SetMaxLength ==
    /\ pc = "idle"
    /\ \E arg \in LimitArgs : SetMaxLengthBody(arg)
    /\ UNCHANGED << pc, llm, system_prompt, text, full_text, path, check_limit,
                    split_limit, input_string, current_string, chunks,
                    full_chunks, summaries, infer_calls >>
    /\ UNCHANGED << call, world, loaded, app >>

\* summarize(t): compose the full prompt, check the length, take a branch
SummarizeBegin ==
    /\ pc = "idle"
    /\ \E t \in Texts :
        LET composed == ComposePrompt(llm, t, system_prompt)
        IN  /\ text' = t
            /\ IF composed.kind = "raise"
               THEN /\ ret' = composed
                    /\ pc' = "done"
                    /\ UNCHANGED << full_text, path, check_limit, input_string,
                                    current_string >>
               ELSE /\ full_text' = composed.str
                    /\ check_limit' = max_length
                    /\ IF ~IsInt(max_length)
                       THEN /\ ret' = Raise(NoneComparison)
                            /\ pc' = "done"
                            /\ UNCHANGED << path, input_string, current_string >>
                       ELSE IF FitsInOneCall(t, composed.str, max_length[1])
                       THEN /\ path' = "single"
                            /\ pc' = "infer_single"
                            /\ ret' = NoResult
                            /\ UNCHANGED << input_string, current_string >>
                       ELSE /\ path' = "multi"
                            /\ pc' = "summarize_split"
                            /\ ret' = NoResult
                            /\ input_string' = SplitInput(t, composed.str)
                            /\ current_string' = SplitInput(t, composed.str)
    /\ UNCHANGED << llm, system_prompt, max_length, string_splitter, last_set,
                    split_limit, chunks, full_chunks, summaries, infer_calls >>
    /\ UNCHANGED << call, world, loaded, app >>

\* a single-call branch that calls infer and forgets to return its result
SingleResultDropped(o) == IF o.kind = "raise" THEN o ELSE ReturnNone

\* what the single-call branch returns for infer's outcome: "return self.llm.infer(...)"
SingleResult(o) == o

\* the single call: return self.llm.infer(full_text)
InferSingle ==
    /\ pc = "infer_single"
    /\ \E o \in Infer(llm, full_text) :
          /\ infer_calls' = Append(infer_calls, [prompt |-> full_text, outcome |-> o])
          /\ ret' = SingleResult(o)
    /\ pc' = "done"
    /\ UNCHANGED << llm, system_prompt, max_length, string_splitter, last_set,
                    text, full_text, path, check_limit, split_limit,
                    input_string, current_string, chunks, full_chunks, summaries >>
    /\ UNCHANGED << call, world, loaded, app >>

\* the prompts of the chunks: [compose_prompt(chunk, system_prompt) for chunk in chunks]
ComposeChunks(cs) == [i \in 1..Len(cs) |-> ComposePrompt(llm, cs[i], system_prompt)]

\* split_string returns inside summarize; the chunks' prompts are composed
SummarizeSplitReturn ==
    /\ pc = "summarize_split"
    /\ ~LoopCondition(current_string, string_splitter[1])
    /\ chunks' = WithLastPart(chunks, current_string)
    /\ split_limit' = string_splitter
    /\ LET composed == ComposeChunks(chunks')
       IN  IF \E i \in 1..Len(composed) : composed[i].kind = "raise"
           THEN /\ ret' = Raise(UnknownPromptFormat)
                /\ pc' = "done"
                /\ UNCHANGED full_chunks
           ELSE /\ full_chunks' = [i \in 1..Len(composed) |-> composed[i].str]
                /\ pc' = "infer_chunks"
                /\ UNCHANGED ret
    /\ UNCHANGED << llm, system_prompt, max_length, string_splitter, last_set,
                    text, full_text, path, check_limit, input_string,
                    current_string, summaries, infer_calls >>
    /\ UNCHANGED << call, world, loaded, app >>

\* the prompt the next infer call of the comprehension gets
NextPrompt(fc, done) == fc[Len(done) + 1]

\* a comprehension that swallows infer's errors and goes on
PropagatesNothing(o) == FALSE

\* an error raised by infer inside the comprehension is not caught
Propagates(o) == o.kind = "raise"

\* one iteration of [self.llm.infer(full) for full in full_chunks]
InferChunk ==
    /\ pc = "infer_chunks"
    /\ Len(summaries) < Len(full_chunks)
    /\ LET prompt == NextPrompt(full_chunks, summaries)
       IN  \E o \in Infer(llm, prompt) :
             /\ infer_calls' = Append(infer_calls, [prompt |-> prompt, outcome |-> o])
             /\ IF Propagates(o)
                THEN /\ ret' = o
                     /\ pc' = "done"
                     /\ UNCHANGED summaries
                ELSE /\ summaries' = Append(summaries, o)
                     /\ UNCHANGED << pc, ret >>
    /\ UNCHANGED << llm, system_prompt, max_length, string_splitter, last_set,
                    text, full_text, path, check_limit, split_limit,
                    input_string, current_string, chunks, full_chunks >>
    /\ UNCHANGED << call, world, loaded, app >>

\* " ".join(summaries)
JoinSummaries(ss) ==
    IF \E i \in 1..Len(ss) : ss[i].kind = "none"
    THEN Raise(JoinOfNone)
    ELSE ReturnStr(JoinWith(<<SP>>, [i \in 1..Len(ss) |-> ss[i].str]))

\* return " ".join(summaries)
SummarizeJoin ==
    /\ pc = "infer_chunks"
    /\ Len(summaries) = Len(full_chunks)
    /\ ret' = JoinSummaries(summaries)
    /\ pc' = "done"
    /\ UNCHANGED << llm, system_prompt, max_length, string_splitter, last_set,
                    text, full_text, path, check_limit, split_limit,
                    input_string, current_string, chunks, full_chunks,
                    summaries, infer_calls >>
    /\ UNCHANGED << call, world, loaded, app >>

\* the caller takes summarize's outcome; the call's locals are gone
SummarizeEnd ==
    /\ pc = "done"
    /\ pc' = "idle"
    /\ NoCall
    /\ ret' = NoResult
    /\ UNCHANGED << llm, system_prompt, max_length, string_splitter, last_set >>
    /\ UNCHANGED << call, world, loaded, app >>

\* a constructed StringSplitter(L) and a direct split_string(s) call at its entry
InitSplit ==
    /\ pc = "split"
    /\ llm = [model_type |-> HF_CAUSAL, model_id |-> LedModel, api_key |-> None,
              max_context_length |-> MaxSumLimit]
    /\ system_prompt = DefaultSystemPrompt
    /\ max_length = None
    /\ string_splitter \in { Some(L) : L \in 1..MaxLimit }
    /\ last_set = NeverSet
    /\ text = << >>
    /\ full_text = << >>
    /\ path = "direct"
    /\ check_limit = None
    /\ split_limit = None
    /\ input_string \in StringsUpTo(MaxStrLen)
    /\ current_string = input_string
    /\ chunks = << >>
    /\ full_chunks = << >>
    /\ summaries = << >>
    /\ infer_calls = << >>
    /\ ret = NoResult
    /\ call = NoOp
    /\ world = EmptyWorld
    /\ loaded = LoadedBy(llm.model_type, llm.model_id)
    /\ app = NoApp

NextSplit == SplitLoop \/ SplitReturn

\* direct split_string calls on every string and limit within the bounds
SpecSplit == InitSplit /\ [][NextSplit]_vars

\* a LargeLanguageModelAPI exists; no TextSummarizer yet
Init ==
    /\ pc = "new"
    /\ llm \in LLMs
    /\ system_prompt = << >>
    /\ max_length = None
    /\ string_splitter = None
    /\ last_set = NeverSet
    /\ text = << >>
    /\ full_text = << >>
    /\ path = "none"
    /\ check_limit = None
    /\ split_limit = None
    /\ input_string = << >>
    /\ current_string = << >>
    /\ chunks = << >>
    /\ full_chunks = << >>
    /\ summaries = << >>
    /\ infer_calls = << >>
    /\ ret = NoResult
    /\ call = NoOp
    /\ world = EmptyWorld
    /\ loaded = LoadedBy(llm.model_type, llm.model_id)
    /\ app = NoApp

Next ==
    \/ Construct
    \/ SetMaxLength
    \/ SummarizeBegin
    \/ SplitLoop
    \/ SummarizeSplitReturn
    \/ InferSingle
    \/ InferChunk
    \/ SummarizeJoin
    \/ SummarizeEnd

\* a TextSummarizer over any LargeLanguageModelAPI, reconfigured and called repeatedly
Spec == Init /\ [][Next]_vars

----------------------------------------------------------------------------
(* StringSplitter built and called directly *)

InvalidInput == "ValueError: input_string must be a string."

\* an entry check that also turns the empty str away ("if not input_string")
SplitStringRejectsEmpty(input) == input = None \/ input[1] = << >>

\* split_string's entry check: "if not isinstance(input_string, str)".
\* The argument is Some(s) for a str s and None for a value that is no str.
SplitStringRejects(input) == input = None

\* the arguments given to StringSplitter(...): ints around zero, and None for a non-int
ChunkLengthArgs == {None} \cup { Some(n) : n \in -1..MaxLimit }

\* the arguments given to split_string(...)
SplitInputs == {None} \cup { Some(s) : s \in StringsUpTo(MaxInputLen) }

\* StringSplitter(arg)
SplitterNew ==
    /\ pc = "no_splitter"
    /\ \E arg \in ChunkLengthArgs :
          /\ call' = [op |-> "StringSplitter", max_chunk_length |-> arg,
                      input_string |-> None, earlier |-> FALSE]
          /\ IF ValidChunkLength(arg)
             THEN /\ string_splitter' = arg
                  /\ ret' = ReturnNone
                  /\ pc' = "splitter_idle"
             ELSE /\ string_splitter' = string_splitter
                  /\ ret' = Raise(InvalidConfiguration)
                  /\ pc' = "splitter_raised"
    /\ UNCHANGED << llm, system_prompt, max_length, last_set, text, full_text, path,
                    check_limit, split_limit, input_string, current_string, chunks,
                    full_chunks, summaries, infer_calls, world, loaded, app >>

\* a chunk list kept on the splitter from one call to the next
FreshChunksKept(old) == old

\* "chunks = []": each call starts from its own empty list
FreshChunks(old) == << >>

\* split_string(input) on the built splitter, up to the loop; "earlier" tells
\* whether split_string already ran on this splitter
SplitCall ==
    /\ pc \in {"splitter_idle", "split_returned", "split_raised"}
    /\ call.op \in {"StringSplitter", "split_string"}
    /\ \E input \in SplitInputs :
          /\ call' = [call EXCEPT !.op = "split_string", !.input_string = input,
                                   !.earlier = (call.op = "split_string")]
          /\ IF SplitStringRejects(input)
             THEN /\ ret' = Raise(InvalidInput)
                  /\ pc' = "split_raised"
                  /\ UNCHANGED << input_string, current_string, chunks >>
             ELSE /\ ret' = NoResult
                  /\ pc' = "split"
                  /\ input_string' = input[1]
                  /\ current_string' = input[1]
                  /\ chunks' = FreshChunks(chunks)
    /\ UNCHANGED << llm, system_prompt, max_length, string_splitter, last_set, text,
                    full_text, path, check_limit, split_limit, full_chunks,
                    summaries, infer_calls, world, loaded, app >>

\* no StringSplitter yet
InitSplitter ==
    /\ pc = "no_splitter"
    /\ llm = [model_type |-> HF_CAUSAL, model_id |-> LedModel, api_key |-> None,
              max_context_length |-> MaxSumLimit]
    /\ system_prompt = DefaultSystemPrompt
    /\ max_length = None
    /\ string_splitter = None
    /\ last_set = NeverSet
    /\ text = << >>
    /\ full_text = << >>
    /\ path = "direct"
    /\ check_limit = None
    /\ split_limit = None
    /\ input_string = << >>
    /\ current_string = << >>
    /\ chunks = << >>
    /\ full_chunks = << >>
    /\ summaries = << >>
    /\ infer_calls = << >>
    /\ ret = NoResult
    /\ call = NoOp
    /\ world = EmptyWorld
    /\ loaded = LoadedBy(llm.model_type, llm.model_id)
    /\ app = NoApp

NextSplitter == SplitterNew \/ SplitCall \/ SplitLoop \/ SplitReturn

\* a StringSplitter built from any argument, and split_string called on it repeatedly
SpecSplitter == InitSplitter /\ [][NextSplitter]_vars

----------------------------------------------------------------------------
(* LargeLanguageModelAPI called directly *)

\* the variables of TextSummarizer and StringSplitter
summarizer_vars == << system_prompt, max_length, string_splitter, last_set, text,
                      full_text, path, check_limit, split_limit, input_string,
                      current_string, chunks, full_chunks, summaries, infer_calls >>

\* no TextSummarizer and no StringSplitter exist
NoSummarizer ==
    /\ system_prompt = << >>
    /\ max_length = None
    /\ string_splitter = None
    /\ last_set = NeverSet
    /\ text = << >>
    /\ full_text = << >>
    /\ path = "none"
    /\ check_limit = None
    /\ split_limit = None
    /\ input_string = << >>
    /\ current_string = << >>
    /\ chunks = << >>
    /\ full_chunks = << >>
    /\ summaries = << >>
    /\ infer_calls = << >>

\* str.format of an argument that may be None: None is formatted as the text "None"
FormatArg(v) == IF v = None THEN <<"N", "o", "n", "e">> ELSE v[1]

\* a compose_prompt that tests "if full_text:" and so ignores an empty full_text
ComposePromptCallTruthy(l, message, system_message, full) ==
    IF full # None /\ full[1] # << >>
    THEN ReturnStr(full[1])
    ELSE ComposePrompt(l, message, FormatArg(system_message))

\* LargeLanguageModelAPI.compose_prompt(message, system_message, full_text)
ComposePromptCall(l, message, system_message, full) ==
    IF full # None
    THEN ReturnStr(full[1])
    ELSE ComposePrompt(l, message, FormatArg(system_message))

\* how many times infer(prompt) reaches the backend: self.model(...),
\* self.model.generate(...) or client.chat.completions.create(...)
BackendContacts(l, prompt) ==
    IF prompt = << >>
    THEN 0
    ELSE CASE l.model_type = HF_SEQ2SEQ -> 1
           [] l.model_type = HF_CAUSAL -> 1
           [] l.model_type = OA_API -> IF l.api_key = None THEN 0 ELSE 1
           [] OTHER -> 0

\* the arguments of the direct calls
Messages == { << >>, <<"a">> }
SystemMessages == {None, Some(<<"c">>)}
FullTexts == {None, Some(<< >>), Some(<<"f">>)}
Prompts == { << >>, <<"a">>, <<"a", NL>> }

\* the loads set_model_id attempts, in order, for a model_type
LoadSteps(model_type) ==
    CASE model_type = HF_SEQ2SEQ -> <<"model">>
      [] model_type = HF_CAUSAL -> <<"tokenizer", "model">>
      [] OTHER -> << >>

\* the loads a set_model_id call attempts when load number fails_at raises
\* (0: none raises); the identifier recorded so far plays no part
LoadsAttempted(model_type, fails_at) ==
    IF fails_at = 0
    THEN LoadSteps(model_type)
    ELSE SubSeq(LoadSteps(model_type), 1, fails_at)

\* self.tokenizer / self.model after those attempts: every attempt but a
\* failing one assigns its attribute
LoadedAfter(old, attempts, model_id, fails_at) ==
    [a \in {"tokenizer", "model"} |->
        IF \E i \in 1..Len(attempts) : attempts[i] = a /\ i # fails_at
        THEN Some(model_id)
        ELSE old[a]]

\* set_model_id(model_id): loads for the Hugging Face types, then assigns
\* _model_id; a failing load raises and leaves _model_id as it was
SetModelId ==
    /\ pc = "llm_idle"
    /\ \E model_id \in ModelIds, fails_at \in 0..2 :
          /\ fails_at <= Len(LoadSteps(llm.model_type))
          /\ LET attempts == LoadsAttempted(llm.model_type, fails_at)
                 failed == fails_at # 0
             IN  /\ call' = [op |-> "set_model_id", model_id |-> model_id,
                             before |-> llm, loaded_before |-> loaded,
                             loads |-> attempts]
                 /\ loaded' = LoadedAfter(loaded, attempts, model_id, fails_at)
                 /\ IF failed
                    THEN /\ llm' = llm
                         /\ ret' = Raise(BackendFailure)
                    ELSE /\ llm' = [llm EXCEPT !.model_id = model_id]
                         /\ ret' = ReturnNone
    /\ UNCHANGED << pc, world, app >>
    /\ UNCHANGED summarizer_vars

\* compose_prompt(message, system_message, full_text)
ComposeCall ==
    /\ pc = "llm_idle"
    /\ \E message \in Messages, system_message \in SystemMessages,
          full \in FullTexts :
          /\ call' = [op |-> "compose_prompt", message |-> message,
                      system_message |-> system_message, full_text |-> full,
                      before |-> llm]
          /\ ret' = ComposePromptCall(llm, message, system_message, full)
    /\ UNCHANGED << pc, llm, world, loaded, app >>
    /\ UNCHANGED summarizer_vars

\* infer(text)
InferCall ==
    /\ pc = "llm_idle"
    /\ \E prompt \in Prompts :
          /\ call' = [op |-> "infer", text |-> prompt, before |-> llm]
          /\ ret' \in Infer(llm, prompt)
          /\ world' = [world EXCEPT !.backend = BackendContacts(llm, prompt)]
    /\ UNCHANGED << pc, llm, loaded, app >>
    /\ UNCHANGED summarizer_vars

\* a constructed LargeLanguageModelAPI of any type, model and key
InitLLM ==
    /\ pc = "llm_idle"
    /\ llm \in LLMs
    /\ NoSummarizer
    /\ ret = NoResult
    /\ call = NoOp
    /\ world = EmptyWorld
    /\ loaded = LoadedBy(llm.model_type, llm.model_id)
    /\ app = NoApp

NextLLM == SetModelId \/ ComposeCall \/ InferCall

\* direct calls of set_model_id, compose_prompt and infer
SpecLLM == InitLLM /\ [][NextLLM]_vars

----------------------------------------------------------------------------
(* ProjectGutenbergAPI *)

NoSearchResults == "ProjectGutenbergAPIError: No search results found"
NoBookId == "ProjectGutenbergAPIError: Failed to extract book_id from book_link"
DownloadFailed == "ProjectGutenbergAPIError: Failed to download book content"
RetrieveFailed == "ProjectGutenbergAPIError: Failed to retrieve book content"
\* requests.get could not complete: a requests.exceptions.RequestException
RequestException == "requests.exceptions.RequestException"
\* an attribute looked up on the None that row.find(...) returned
AttributeErrorOnNone == "AttributeError: 'NoneType' object has no attribute"

\* the queries a caller may pass
Queries == {"alice", "zzz"}

\* the href of the first result row's a.link anchor
Hrefs == {"/ebooks/12", "/ebooks/12/", "/ebooks/author/3"}

\* the first li.booklink row of a search page: the href of its a.link anchor
\* (None when the row has no such anchor) and whether it has the title and
\* subtitle spans
Rows == [href : {None} \cup { Some(h) : h \in Hrefs },
         title : BOOLEAN, subtitle : BOOLEAN]

\* what requests.get(search_url) may bring: no response at all, or a page with
\* no result row, or a page whose first result row is one of Rows
SearchOutcomes ==
    { [arrived |-> FALSE, rows |-> << >>], [arrived |-> TRUE, rows |-> << >>] }
        \cup { [arrived |-> TRUE, rows |-> <<r>>] : r \in Rows }

\* what requests.get(content_url or book_link) may bring
Bodies == { << >>, <<"t">>, <<"t", NL>> }
DownloadOutcomes ==
    { [arrived |-> FALSE, status_code |-> 0, body |-> << >>] }
        \cup [arrived : {TRUE}, status_code : {200, 404}, body : Bodies]

\* re.search(r"gutenberg\.org/ebooks/(\d+)/?$", book_link): the book id, or None
BookId(href) ==
    CASE href = "/ebooks/12" -> Some(12)
      [] href = "/ebooks/12/" -> Some(12)
      [] OTHER -> None

\* search_books' loop body on the first row, with top_n = 1
RowParses(row) == row.href # None /\ row.title /\ row.subtitle

\* download_book_content after its request: lines 84-90
DownloadResult(o) ==
    IF ~o.arrived THEN Raise(RetrieveFailed)
    ELSE IF o.status_code = 200 THEN ReturnStr(o.body)
    ELSE Raise(DownloadFailed)

\* download_most_popular_book_from_query(query, text_only): up to the search request
FetchCall ==
    /\ pc \in {"fetch_idle", "fetch_done"}
    /\ \E query \in Queries, text_only \in BOOLEAN :
          call' = [op |-> "download_most_popular_book_from_query",
                   query |-> query, text_only |-> text_only, book_link |-> None]
    /\ world' = [world EXCEPT !.requests = <<[to |-> "search", outcome |-> "sent"]>>]
    /\ ret' = NoResult
    /\ pc' = "searching"
    /\ UNCHANGED << llm, loaded, app >>
    /\ UNCHANGED summarizer_vars

\* the search request ends; search_books parses the page; the caller picks the
\* first result and download_book_content runs up to its request
SearchResponds ==
    /\ pc = "searching"
    /\ \E o \in SearchOutcomes :
          IF ~o.arrived
          THEN /\ ret' = Raise(RequestException)
               /\ pc' = "fetch_done"
               /\ world' = [world EXCEPT !.requests =
                               <<[to |-> "search", outcome |-> "failed"]>>]
               /\ call' = call
          ELSE /\ IF o.rows = << >>
                  THEN /\ ret' = Raise(NoSearchResults)
                       /\ pc' = "fetch_done"
                       /\ world' = [world EXCEPT !.requests =
                                       <<[to |-> "search", outcome |-> "page", rows |-> o.rows]>>]
                       /\ call' = call
                  ELSE IF ~RowParses(o.rows[1])
                  THEN /\ ret' = Raise(AttributeErrorOnNone)
                       /\ pc' = "fetch_done"
                       /\ world' = [world EXCEPT !.requests =
                                       <<[to |-> "search", outcome |-> "page", rows |-> o.rows]>>]
                       /\ call' = call
                  ELSE IF call.text_only /\ BookId(o.rows[1].href[1]) = None
                  THEN /\ ret' = Raise(NoBookId)
                       /\ pc' = "fetch_done"
                       /\ world' = [world EXCEPT !.requests =
                                       <<[to |-> "search", outcome |-> "page", rows |-> o.rows]>>]
                       /\ call' = [call EXCEPT !.book_link = o.rows[1].href]
                  ELSE /\ ret' = NoResult
                       /\ pc' = "downloading"
                       /\ world' = [world EXCEPT !.requests =
                                       <<[to |-> "search", outcome |-> "page", rows |-> o.rows],
                                         [to |-> "download", outcome |-> "sent"]>>]
                       /\ call' = [call EXCEPT !.book_link = o.rows[1].href]
    /\ UNCHANGED << llm, loaded, app >>
    /\ UNCHANGED summarizer_vars

\* the download request ends; download_book_content returns or raises, and
\* download_most_popular_book_from_query passes that on
DownloadResponds ==
    /\ pc = "downloading"
    /\ \E o \in DownloadOutcomes :
          /\ ret' = DownloadResult(o)
          /\ world' = [world EXCEPT !.requests =
                          <<world.requests[1],
                            [to |-> "download",
                             outcome |-> IF o.arrived THEN "response" ELSE "failed",
                             status_code |-> o.status_code, body |-> o.body]>>]
    /\ pc' = "fetch_done"
    /\ UNCHANGED << llm, call, loaded, app >>
    /\ UNCHANGED summarizer_vars

\* a ProjectGutenbergAPI object; nothing requested yet
InitFetch ==
    /\ pc = "fetch_idle"
    /\ llm = [model_type |-> HF_CAUSAL, model_id |-> LedModel, api_key |-> None,
              max_context_length |-> MaxSumLimit]
    /\ NoSummarizer
    /\ ret = NoResult
    /\ call = NoOp
    /\ world = EmptyWorld
    /\ loaded = LoadedBy(llm.model_type, llm.model_id)
    /\ app = NoApp

NextFetch == FetchCall \/ SearchResponds \/ DownloadResponds

\* download_most_popular_book_from_query called repeatedly against any server behaviour
SpecFetch == InitFetch /\ [][NextFetch]_vars

----------------------------------------------------------------------------
(* LiteratureAdaptationApp.output_result *)

FileOpenFailure == "OSError: cannot open file"
WriteOfNone == "TypeError: write() argument must be str, not None"

\* the values a caller may pass as text: a str, or None for a summary that is absent
OutTexts == {None} \cup { Some(s) : s \in { << >>, <<"a">>, <<"a", NL>> } }

\* the values a caller may pass as filepath
FilePaths == {None} \cup { Some(p) : p \in Paths }

\* a print that leaves out the line end
PrintedBare(t) == FormatArg(t)

\* what print(text) sends to standard output
Printed(t) == FormatArg(t) \o <<NL>>

\* what f.write(text) puts into the file opened with mode "w"
Written(t) == t[1]

\* output_result(text, filepath)
OutputResult ==
    /\ pc = "app_idle"
    /\ \E t \in OutTexts, filepath \in FilePaths, opens \in BOOLEAN :
          /\ opens \/ filepath # None
          /\ call' = [op |-> "output_result", text |-> t, filepath |-> filepath]
          /\ IF filepath # None
             THEN IF ~opens
                  THEN /\ ret' = Raise(FileOpenFailure)
                       /\ world' = world
                  ELSE IF t = None
                  THEN /\ ret' = Raise(WriteOfNone)
                       /\ world' = [world EXCEPT !.files[filepath[1]] = Some(<< >>)]
                  ELSE /\ ret' = ReturnNone
                       /\ world' = [world EXCEPT
                                       !.files[filepath[1]] = Some(Written(t))]
             ELSE /\ Len(world.stdout) + Len(Printed(t)) <= MaxStdoutLen
                  /\ ret' = ReturnNone
                  /\ world' = [world EXCEPT !.stdout = world.stdout \o Printed(t)]
    /\ UNCHANGED << pc, llm, loaded, app >>
    /\ UNCHANGED summarizer_vars

\* the errors download_most_popular_book_from_query may end with
FetchErrors == {NoSearchResults, NoBookId, DownloadFailed, RetrieveFailed,
                RequestException, AttributeErrorOnNone}

\* TextSummarizer(language_model=self.llm, custom_system_prompt=None): max_length
\* takes its default None, which StringSplitter rejects
SummarizerOfRun == IF ValidChunkLength(None) THEN ReturnNone ELSE Raise(InvalidConfiguration)

\* run(): fetch the book, build the TextSummarizer, summarize, output_result.
\* Building the TextSummarizer raises, so run ends there at the latest.
AppRun ==
    /\ pc = "app_idle"
    /\ SummarizerOfRun.kind = "raise"
    /\ \E fetched \in {ReturnStr(b) : b \in Bodies} \cup {Raise(e) : e \in FetchErrors} :
          /\ call' = [op |-> "run", fetched |-> fetched]
          /\ ret' = IF fetched.kind = "raise" THEN fetched ELSE SummarizerOfRun
    /\ UNCHANGED << pc, llm, world, loaded, app >>
    /\ UNCHANGED summarizer_vars

\* self.llm.infer(prompt): an inference call on the app's LargeLanguageModelAPI
AppLlmInfer ==
    /\ pc = "app_idle"
    /\ \E prompt \in Prompts :
          /\ call' = [op |-> "infer", text |-> prompt]
          /\ ret' \in Infer(llm, prompt)
    /\ UNCHANGED << pc, llm, world, loaded, app >>
    /\ UNCHANGED summarizer_vars

\* the key LiteratureAdaptationApp.__init__ hands to LargeLanguageModelAPI:
\* "api_key=None", whatever api_key the app was given
KeyOfAppLlm(api_key) == None

\* LiteratureAdaptationApp(gutenberg_query, api_key, model_type, model_id,
\* output_file_path=...) was constructed; nothing printed, no file written
InitApp ==
    /\ pc = "app_idle"
    /\ \E api_key \in ApiKeys, output_file_path \in FilePaths,
          model_type \in ModelTypes, model_id \in ModelIds :
          /\ app = [gutenberg_query |-> "alice", api_key |-> api_key,
                    output_file_path |-> output_file_path]
          /\ llm = [model_type |-> model_type, model_id |-> model_id,
                    api_key |-> KeyOfAppLlm(api_key),
                    max_context_length |-> DefaultMaxContextLength]
    /\ NoSummarizer
    /\ ret = NoResult
    /\ call = NoOp
    /\ world = EmptyWorld
    /\ loaded = LoadedBy(llm.model_type, llm.model_id)

NextApp == OutputResult \/ AppRun \/ AppLlmInfer

\* run, output_result and the app's inference capability, called repeatedly
SpecApp == InitApp /\ [][NextApp]_vars

----------------------------------------------------------------------------
(* Claims about StringSplitter, checked under SpecSplit *)

InSplit == pc \in {"split", "summarize_split"}
Limit == string_splitter[1]
LastChunk(cs) == cs[Len(cs)]

\* C1 (round trip): at every point of split_string the chunks cut so far followed
\* by the remaining text are the input, and the returned chunks, concatenated in
\* order, are the input exactly.
C1_RoundTrip ==
    /\ InSplit => Concat(chunks) \o current_string = input_string
    /\ pc = "split_returned" => Concat(chunks) = input_string

\* C1 witness: a returned split of a text with a blank line that was cut three times
C1_Witness ==
    /\ pc = "split_returned"
    /\ Len(chunks) >= 4
    /\ Rfind(input_string, <<NL, NL>>) >= 0

\* C2 (bound): every chunk, in the loop and in the returned sequence, is at most
\* max_chunk_length long.
C2_Bound ==
    (InSplit \/ pc = "split_returned") =>
        \A i \in 1..Len(chunks) : Len(chunks[i]) <= Limit

\* C2 witness: a returned split of several chunks whose last chunk is exactly
\* max_chunk_length long
C2_Witness ==
    /\ pc = "split_returned"
    /\ Len(chunks) >= 2
    /\ Limit >= 2
    /\ Len(LastChunk(chunks)) = Limit

\* C3 (termination): each pass of split_string's loop cuts off at least one
\* character, so the remaining text strictly shrinks.
C3_EachPassShrinks ==
    [][ (InSplit /\ chunks' # chunks /\ pc' = pc)
            => Len(current_string') < Len(current_string) ]_vars

\* the 0-based position just after the rightmost double line-break that lies
\* inside the trailing window [int(0.8 * L), L) of cur; -1 when there is none
AfterDoubleBreak(cur, L) ==
    LET found == Rfind(Slice(cur, MinLen(L), L), <<NL, NL>>)
    IN  IF found < 0 THEN -1 ELSE found + MinLen(L) + 2

\* C4 (boundary preference): when a double line-break lies inside the trailing
\* 20% of the first max_chunk_length characters of the remaining text, the pass
\* cuts immediately after the rightmost such double line-break.
C4_CutAfterDoubleBreak ==
    [][ (InSplit /\ chunks' # chunks /\ pc' = pc
             /\ AfterDoubleBreak(current_string, Limit) >= 0)
            => /\ Len(LastChunk(chunks')) = AfterDoubleBreak(current_string, Limit)
               /\ current_string' =
                      Slice(current_string,
                            AfterDoubleBreak(current_string, Limit),
                            Len(current_string)) ]_vars

----------------------------------------------------------------------------
(* Claims about TextSummarizer.summarize, checked under Spec *)

\* the prompt summarize is to compose for message m
PromptOf(m) == FormatTemplate(llm.model_id, m, system_prompt)

\* every infer call of the running summarize returned a value
AllCallsReturned ==
    \A i \in 1..Len(infer_calls) : infer_calls[i].outcome.kind # "raise"

\* C5 (multi-call path): on a text longer than max_length (a limit that
\* set_max_length accepted), infer is called once per chunk of the splitter, in
\* chunk order, each time with the prompt composed from the system prompt and
\* that chunk, and once every chunk's call has returned, summarize returns the
\* results joined in that order by single spaces.
C5_MultiCallPath ==
    (path = "multi" /\ last_set.outcome = "returned") =>
        /\ Len(infer_calls) <= Len(full_chunks)
        /\ \A i \in 1..Len(infer_calls) : infer_calls[i].prompt = PromptOf(chunks[i])
        /\ (pc = "done" /\ AllCallsReturned) =>
              /\ Len(infer_calls) = Len(chunks)
              /\ ret = ReturnStr(JoinWith(<<SP>>,
                           [i \in 1..Len(infer_calls) |-> infer_calls[i].outcome.str]))

C8_ErrorPropagation ==
    path = "multi" =>
        /\ \A i \in 1..(Len(infer_calls) - 1) : infer_calls[i].outcome.kind # "raise"
        /\ \A i \in 1..Len(infer_calls) : infer_calls[i].prompt = full_chunks[i]
        /\ (infer_calls # << >> /\ LastChunk(infer_calls).outcome.kind = "raise") =>
              /\ pc = "done"
              /\ ret = LastChunk(infer_calls).outcome

\* C8 witness: infer raised on the first of several chunks, after which summarize
\* ended with that error and the later chunks were never inferred
C8_Witness ==
    /\ pc = "done"
    /\ path = "multi"
    /\ Len(full_chunks) >= 2
    /\ Len(infer_calls) = 1
    /\ infer_calls[1].outcome.kind = "raise"
    /\ ret = infer_calls[1].outcome

\* C9 (default limit): constructing a TextSummarizer without an explicit
\* max_length succeeds, and its max_length and its splitter's bound are the
\* language model's max_context_length.
C9_DefaultLimit ==
    [][ (pc = "new" /\ pc' # "new" /\ last_set'.arg = None)
            => /\ pc' = "idle"
               /\ max_length' = Some(llm.max_context_length)
               /\ string_splitter' = Some(llm.max_context_length) ]_vars

\* C10 (reconfiguration): once set_max_length(n) has returned, and until the next
\* set_max_length call, max_length and the splitter's bound are n, and n is the
\* limit every summarize call compares with and splits by.
C10_Reconfiguration ==
    last_set.outcome = "returned" =>
        /\ max_length = last_set.arg
        /\ string_splitter = last_set.arg
        /\ check_limit # None => check_limit = last_set.arg
        /\ split_limit # None => split_limit = last_set.arg

\* C10 witness: the limit was changed from one valid value to another, and a
\* multi-call summarize then compared with and split by the new value
C10_Witness ==
    /\ last_set.outcome = "returned"
    /\ ValidChunkLength(last_set.prev)
    /\ last_set.prev # last_set.arg
    /\ pc = "infer_chunks"
    /\ Len(full_chunks) >= 2
    /\ check_limit = last_set.arg
    /\ split_limit = last_set.arg

----------------------------------------------------------------------------
(* Claims about StringSplitter's construction and entry, checked under SpecSplitter *)

\* the argument StringSplitter(...) was given is no positive integer
BadChunkLength(arg) == arg = None \/ arg[1] <= 0

\* C11: StringSplitter(arg) with arg zero, negative or not an integer raises
\* ValueError("max_chunk_length must be a positive integer.") and builds no
\* splitter; a splitter that exists has exactly the positive limit it was given,
\* so split_string never runs with a limit of 0 or -1 or with a substituted one.
C11_ConfigValidation ==
    /\ call.op = "none" => (pc = "no_splitter" /\ string_splitter = None)
    /\ call.op # "none" =>
          /\ BadChunkLength(call.max_chunk_length) <=> pc = "splitter_raised"
          /\ pc = "splitter_raised" =>
                (ret = Raise(InvalidConfiguration) /\ string_splitter = None)
          /\ pc # "splitter_raised" =>
                (string_splitter = call.max_chunk_length /\ string_splitter[1] >= 1)
    /\ pc \in {"split", "split_returned", "split_raised"} =>
          (string_splitter # None /\ string_splitter[1] >= 1)

C11_Witness ==
    /\ pc = "splitter_raised"
    /\ call.max_chunk_length = Some(0)
    /\ ret = Raise(InvalidConfiguration)

\* C12: for every positive limit, split_string("") does not raise, never enters
\* the loop, and returns the empty list or the list holding one empty str.
C12_EmptyInputToSplitter ==
    (call.op = "split_string" /\ call.input_string = Some(<< >>)) =>
        /\ pc \in {"split", "split_returned"}
        /\ ret.kind # "raise"
        /\ pc = "split" => (chunks = << >> /\ ~ENABLED SplitLoop)
        /\ pc = "split_returned" => chunks \in { << >>, << << >> >> }

C12_Witness ==
    /\ pc = "split_returned"
    /\ call.op = "split_string"
    /\ call.input_string = Some(<< >>)
    /\ string_splitter = Some(MaxLimit)
    /\ chunks \in { << >>, << << >> >> }

----------------------------------------------------------------------------
(* Claims about empty input to summarize, checked under Spec *)

\* the backend of l is one infer knows, has the key it needs, and did not fail
BackendWouldSucceed(l, outcome) ==
    /\ l.model_type \in {HF_SEQ2SEQ, HF_CAUSAL, OA_API}
    /\ l.model_type = OA_API => l.api_key # None
    /\ outcome.err # BackendFailure

\* C13: summarize("") does not raise when the model identifier has a registered
\* prompt template (the bare "{message}" template included), the limit was set
\* to a valid value and the backend call would succeed.
C13_EmptyInputToReducer ==
    ( /\ pc = "done"
      /\ text = << >>
      /\ HasTemplate(llm.model_id)
      /\ last_set.outcome = "returned"
      /\ BackendWouldSucceed(llm, ret) )
    => ret.kind # "raise"

----------------------------------------------------------------------------
(* Claims about where split_string cuts, checked under SpecSplit *)

\* the first L characters of the remaining text
Window(cur, L) == Slice(cur, 0, L)

\* s[i..j] (1-based, inclusive) holds newline characters only
AllNewlines(s, i, j) == \A k \in i..j : s[k] = NL

\* the length of the longest run of consecutive newline characters in s
LongestNewlineRun(s) ==
    SetMax({0} \cup { n \in 1..Len(s) :
                        \E i \in 1..(Len(s) - n + 1) : AllNewlines(s, i, i + n - 1) })

\* chunk ends with a run of n newline characters
EndsWithNewlines(chunk, n) ==
    /\ Len(chunk) >= n
    /\ AllNewlines(chunk, Len(chunk) - n + 1, Len(chunk))

\* C14 (newline-run splitting, as the docstring and test_string_splitter_split_string
\* state it): when the remaining text is longer than the limit and its first
\* max_chunk_length characters hold a newline, the pass cuts immediately after a
\* longest run of newline characters of that window, so the chunk ends with it.
\* (Stated for limits of at least 2: with limit 1 a pass cuts nothing, see C3.)
C14_CutAfterLongestNewlineRun ==
    [][ (InSplit /\ chunks' # chunks /\ pc' = pc /\ Limit >= 2
             /\ LongestNewlineRun(Window(current_string, Limit)) >= 1)
            => /\ Len(LastChunk(chunks')) <= Limit
               /\ EndsWithNewlines(LastChunk(chunks'),
                                   LongestNewlineRun(Window(current_string, Limit))) ]_vars

\* the trailing window [int(0.8 * L), L) of cur holds no line-break
NoBreakInTrailingWindow(cur, L) ==
    Rfind(Slice(cur, MinLen(L), L), <<NL>>) < 0

\* C15 (whitespace rule): when the remaining text is longer than the limit L, the
\* trailing 20% of its first L characters holds no line-break and the first L
\* characters hold a whitespace character after position 0, the pass cuts at the
\* rightmost whitespace character of the first L characters.
C15_CutAtRightmostWhitespace ==
    [][ (InSplit /\ chunks' # chunks /\ pc' = pc
             /\ NoBreakInTrailingWindow(current_string, Limit)
             /\ Rfind(Window(current_string, Limit), <<SP>>) > 0)
            => Len(LastChunk(chunks')) = Rfind(Window(current_string, Limit), <<SP>>) ]_vars

----------------------------------------------------------------------------
(* Claims about LargeLanguageModelAPI, checked under SpecLLM *)

\* C16: compose_prompt raises ValueError("Don't know the prompt format for this
\* model") exactly when the active model identifier has no registered template
\* and no full_text is given; a given full_text is returned verbatim whatever the
\* model identifier; otherwise the result is the registered template with
\* message and system_message substituted; the object is left as it was.
C16_ComposePrompt ==
    call.op = "compose_prompt" =>
        /\ llm = call.before
        /\ ret.kind = "raise" <=>
              (~HasTemplate(llm.model_id) /\ call.full_text = None)
        /\ ret.kind = "raise" => ret = Raise(UnknownPromptFormat)
        /\ call.full_text # None => ret = ReturnStr(call.full_text[1])
        /\ (call.full_text = None /\ HasTemplate(llm.model_id)) =>
              ret = ReturnStr(FormatTemplate(llm.model_id, call.message,
                                             FormatArg(call.system_message)))

C16_Witness ==
    /\ call.op = "compose_prompt"
    /\ llm.model_id = OtherModel
    /\ call.full_text = None
    /\ ret = Raise(UnknownPromptFormat)

\* C17: infer on a non-empty prompt raises the missing-credentials ValueError,
\* without reaching the backend, when the type is OA_API and no API key was
\* given, and raises LargeLanguageModelAPIError when the type is none of the
\* supported types; neither call returns a result.
C17_InferConfigurationErrors ==
    (call.op = "infer" /\ call.text # << >>) =>
        /\ (llm.model_type = OA_API /\ llm.api_key = None) =>
              (ret = Raise(MissingCredentials) /\ world.backend = 0)
        /\ llm.model_type \notin {HF_SEQ2SEQ, HF_CAUSAL, OA_API} =>
              (ret = Raise(UnsupportedBackend) /\ world.backend = 0)

C17_Witness ==
    /\ call.op = "infer"
    /\ call.text # << >>
    /\ llm.model_type = OA_API
    /\ llm.api_key = None
    /\ ret = Raise(MissingCredentials)
    /\ world.backend = 0

\* C18: for every supported type (HF_SEQ2SEQ, HF_CAUSAL, OA_API), an infer call
\* whose backend call succeeds returns the generated text as a str, never None.
C18_InferReturnsText ==
    ( /\ call.op = "infer"
      /\ llm.model_type \in {HF_SEQ2SEQ, HF_CAUSAL, OA_API}
      /\ ret.kind # "raise" )
    => (ret.kind = "str" /\ ret.str \in Generated)

----------------------------------------------------------------------------
(* Claims about ProjectGutenbergAPI, checked under SpecFetch *)

\* the errors of type ProjectGutenbergAPIError
DocumentSourceErrors == {NoSearchResults, NoBookId, DownloadFailed, RetrieveFailed}

\* the search page arrived and its first result row lacks an anchor or a span
MalformedFirstRow ==
    /\ world.requests[1].outcome = "page"
    /\ world.requests[1].rows # << >>
    /\ ~RowParses(world.requests[1].rows[1])

\* the call ended by returning the body of a 200 response to the download request
ReturnedDownloadedText ==
    /\ ret.kind = "str"
    /\ Len(world.requests) = 2
    /\ world.requests[2].outcome = "response"
    /\ world.requests[2].status_code = 200
    /\ ret.str = world.requests[2].body

\* C19: download_most_popular_book_from_query either returns the text of the
\* first search result, taken from a 200 response, or raises
\* ProjectGutenbergAPIError; no other kind of error escapes, whichever of the
\* two requests fails.  (Stated for the default text_only = True and for pages
\* whose first result row is well formed.)
C19_DocumentSource ==
    (pc = "fetch_done" /\ call.text_only /\ ~MalformedFirstRow) =>
        \/ ReturnedDownloadedText
        \/ (ret.kind = "raise" /\ ret.err \in DocumentSourceErrors)

----------------------------------------------------------------------------
(* Claims about LiteratureAdaptationApp.output_result, checked under SpecApp *)

\* C20: output_result(text, filepath) for a str text: when a path is given and
\* the call returns, the file at that path holds exactly the text, with no line
\* end added, no other file is touched and nothing is printed; when no path is
\* given, the text followed by one newline is added to standard output and no
\* file is touched.
C20_Output ==
    [][ (call'.op = "output_result" /\ call'.text # None) =>
           /\ (call'.filepath # None /\ ret'.kind # "raise") =>
                 /\ world'.files[call'.filepath[1]] = Some(call'.text[1])
                 /\ \A p \in Paths \ {call'.filepath[1]} :
                       world'.files[p] = world.files[p]
                 /\ world'.stdout = world.stdout
           /\ call'.filepath # None => world'.stdout = world.stdout
           /\ call'.filepath = None =>
                 /\ ret'.kind # "raise"
                 /\ world'.stdout = world.stdout \o call'.text[1] \o <<NL>>
                 /\ world'.files = world.files ]_vars

C20_Witness ==
    /\ call.op = "output_result"
    /\ call.filepath = Some("out.txt")
    /\ call.text = Some(<<"a">>)
    /\ ret = ReturnNone
    /\ world.files["out.txt"] = Some(<<"a">>)
    /\ world.files["other.txt"] = Some(<<"a", NL>>)
    /\ world.stdout = <<"a", NL>>

----------------------------------------------------------------------------
(* Claims about determinism of split_string, checked under SpecSplitter *)

RECURSIVE ChunksOf(_, _, _)
\* the chunk sequence as a function of the text and the limit alone: the loop of
\* split_string unrolled for at most n passes
ChunksOf(s, L, n) ==
    IF Len(s) > L /\ n > 0
    THEN <<Slice(s, 0, FindSplitIndex(s, L))>>
             \o ChunksOf(Slice(s, FindSplitIndex(s, L), Len(s)), L, n - 1)
    ELSE IF s # << >> THEN <<s>> ELSE << >>

----------------------------------------------------------------------------
(* Further claims about where split_string cuts, checked under SpecSplit *)

\* the trailing window [int(0.8 * L), L) of cur
TrailingWindow(cur, L) == Slice(cur, MinLen(L), L)

\* the 0-based position just after the rightmost single line-break of the
\* trailing window of cur
AfterSingleBreak(cur, L) == Rfind(TrailingWindow(cur, L), <<NL>>) + MinLen(L) + 1

\* C22 (single line-break rule): when the remaining text is longer than the
\* limit L and the trailing 20% of its first L characters holds no double
\* line-break but holds a single line-break, the pass cuts immediately after the
\* rightmost single line-break of that trailing window.
\* (Stated for limits of at least 2: with limit 1 a pass cuts nothing, see C3.)
C22_CutAfterSingleBreak ==
    [][ (InSplit /\ chunks' # chunks /\ pc' = pc /\ Limit >= 2
             /\ Rfind(TrailingWindow(current_string, Limit), <<NL, NL>>) < 0
             /\ Rfind(TrailingWindow(current_string, Limit), <<NL>>) >= 0)
            => Len(LastChunk(chunks')) = AfterSingleBreak(current_string, Limit) ]_vars

\* the first L characters of cur hold neither a line-break nor a whitespace
NoBoundary(cur, L) ==
    \A i \in 1..Min2(L, Len(cur)) : cur[i] \notin {NL, SP}

\* C23 (hard cut): when the remaining text is longer than the limit L and its
\* first L characters hold no line-break and no whitespace, the pass cuts at
\* exactly L: the chunk is the first L characters.
\* (Stated for limits of at least 2: with limit 1 a pass cuts nothing, see C3.)
C23_HardCutAtLimit ==
    [][ (InSplit /\ chunks' # chunks /\ pc' = pc /\ Limit >= 2
             /\ NoBoundary(current_string, Limit))
            => LastChunk(chunks') = Slice(current_string, 0, Limit) ]_vars

----------------------------------------------------------------------------
(* Claims about the limit of a TextSummarizer and the order of its steps,
   checked under Spec *)

\* a TextSummarizer exists
Constructed == pc \notin {"new", "init_raised"}

\* C24: once a TextSummarizer is constructed, after any number of set_max_length
\* calls with any arguments, its max_length equals the max_chunk_length of its
\* string_splitter, and a set_max_length call that raised left max_length as it
\* was before the call.
C24_LimitAndSplitterAgree ==
    Constructed =>
        /\ max_length = string_splitter
        /\ last_set.outcome = "raised" => max_length = last_set.prev

\* C25: after any sequence of set_max_length calls, returning or raising,
\* whenever summarize takes the multi-call path and returns, the splitter
\* produced at least two chunks and at least two inference calls were made.
C25_MultiPathSplits ==
    (pc = "done" /\ path = "multi" /\ ret.kind # "raise") =>
        (Len(chunks) >= 2 /\ Len(infer_calls) >= 2)

\* C27 (compose before infer): summarize composes the prompt of the full text
\* before the length check, and on the multi-call path the prompts of all chunks
\* before the first inference call; so with a model identifier that has no
\* prompt template summarize raises the unknown-prompt-format ValueError with no
\* inference call made, whatever the length of the text.
C27_ComposeBeforeInfer ==
    /\ (pc = "done" /\ ~HasTemplate(llm.model_id)) =>
          (ret = Raise(UnknownPromptFormat) /\ infer_calls = << >>)
    /\ pc \in {"infer_single", "summarize_split", "infer_chunks"} =>
          (HasTemplate(llm.model_id) /\ full_text = PromptOf(text))
    /\ pc = "summarize_split" => infer_calls = << >>
    /\ pc = "infer_chunks" =>
          /\ Len(full_chunks) = Len(chunks)
          /\ \A i \in 1..Len(chunks) : full_chunks[i] = PromptOf(chunks[i])
          /\ Len(infer_calls) <= Len(full_chunks)

C27_Witness ==
    /\ pc = "done"
    /\ ~HasTemplate(llm.model_id)
    /\ IsInt(max_length)
    /\ Len(text) > max_length[1]
    /\ max_length[1] >= 1
    /\ ret = Raise(UnknownPromptFormat)
    /\ infer_calls = << >>

----------------------------------------------------------------------------
(* Claims about set_model_id, checked under SpecLLM *)

\* before the call, tokenizer, model and _model_id all belonged to identifier id
AlreadyLoaded(c, id) ==
    /\ c.before.model_id = id
    /\ c.loaded_before = LoadedBy(c.before.model_type, id)

\* C28 (build or reuse): for the Hugging Face types, set_model_id with a new
\* identifier loads the tokenizer and the model of that identifier and records
\* it, and set_model_id with the identifier that is already loaded performs no
\* load.
C28_BuildOrReuse ==
    ( /\ call.op = "set_model_id"
      /\ llm.model_type \in {HF_SEQ2SEQ, HF_CAUSAL}
      /\ ret.kind # "raise" )
    => IF AlreadyLoaded(call, call.model_id)
       THEN call.loads = << >>
       ELSE /\ call.loads = LoadSteps(llm.model_type)
            /\ llm.model_id = call.model_id
            /\ loaded = LoadedBy(llm.model_type, call.model_id)

\* C29: for an HF_CAUSAL LargeLanguageModelAPI, after any number of
\* set_model_id calls, failing loads included, the loaded tokenizer, the loaded
\* model and the recorded _model_id belong to the same model identifier.
C29_LoadedMatchesModelId ==
    llm.model_type = HF_CAUSAL =>
        /\ loaded.tokenizer = Some(llm.model_id)
        /\ loaded.model = Some(llm.model_id)

----------------------------------------------------------------------------
(* Claims about LiteratureAdaptationApp's API key, checked under SpecApp *)

\* C30: the API key given to LiteratureAdaptationApp is the key its
\* LargeLanguageModelAPI uses: for an app constructed with the OA_API type and
\* a non-empty key, an inference call on a non-empty prompt does not end with
\* the missing-credentials ValueError.
C30_AppKeyReachesLlm ==
    ( /\ llm.model_type = OA_API
      /\ app.api_key # None
      /\ call.op = "infer"
      /\ call.text # << >> )
    => (llm.api_key = app.api_key /\ ret # Raise(MissingCredentials))

====
